---------------------------- MODULE Spec2Model ----------------------------
(***************************************************************************)
(* Model of the movies ETL pipeline: extract_from_s3 (etl/extract.py),     *)
(* transform (etl/transform.py) and load_to_postgres                       *)
(* (etl/load_postgres.py), run in sequence by the __main__ block of        *)
(* etl/load_postgres.py.                                                   *)
(*                                                                         *)
(* Representation.                                                         *)
(*   - A string is a sequence of symbols.  A symbol is a comma ",", a      *)
(*     blank " ", or a run of non-blank, non-comma characters ("Horor").   *)
(*     str.split(','), str.strip() and dictionary lookup only ever look at *)
(*     commas, at leading/trailing blanks and at whole-string equality, so *)
(*     a run of other characters can be carried as one symbol.             *)
(*   - A cell of a DataFrame is a record [k, n, s]: k = "nan" (missing),  *)
(*     "str" (text s), "num" (finite number n) or "inf" (n = 1 for +inf,   *)
(*     n = -1 for -inf).  roi cells hold n in hundredths.                  *)
(*   - A DataFrame is [columns |-> sequence of names, rows |-> sequence    *)
(*     of records].  A database relation is [exists, schema, rows].        *)
(***************************************************************************)
EXTENDS Integers, Sequences, FiniteSets, TLC

VARIABLES
    pc,               \* position of the __main__ script / outcome of the run
    err,              \* the exception that ended the run ("none" while running)
    source,           \* content of the S3 object movies.csv, as read_csv parses it
    df_raw,           \* __main__: df_raw
    df_movies,        \* __main__: df_movies
    df_movie_genres,  \* __main__: df_movie_genres
    db,               \* PostgreSQL: the relations movies and movie_genres
    db0,              \* history: the relations as they were when the run started
    log,              \* history: the stages of this run that completed, in order
    counts            \* load_to_postgres: movies_count, genres_count

vars == <<pc, err, source, df_raw, df_movies, df_movie_genres, db, db0, log, counts>>

\* ------------------------------------------------------------------ bounds

\* Longest table (number of records) drawn for the S3 object.
MaxRecords == 2
\* Longest genre string (in symbols) enumerated exhaustively.
MaxGenreLen == 3
\* Largest absolute value of the integers enumerated for budget and box_office.
MaxAmount == 2

\* ------------------------------------------------------------------ cells

NaN == [k |-> "nan", n |-> 0, s |-> <<>>]
Str(s) == [k |-> "str", n |-> 0, s |-> s]
Num(n) == [k |-> "num", n |-> n, s |-> <<>>]
Inf(sign) == [k |-> "inf", n |-> sign, s |-> <<>>]

\* pd.isna / Series.isna: None and NaN are missing; +-inf and text are not.
isna(c) == c.k = "nan"

\* ------------------------------------------------------------------ strings

Whitespace == {" "}

RECURSIVE lstrip(_)
lstrip(s) ==
    IF s # <<>> /\ Head(s) \in Whitespace THEN lstrip(Tail(s)) ELSE s

RECURSIVE rstrip(_)
rstrip(s) ==
    IF s # <<>> /\ s[Len(s)] \in Whitespace
    THEN rstrip(SubSeq(s, 1, Len(s) - 1))
    ELSE s

\* str.strip(): leading and trailing whitespace removed.
strip(s) == rstrip(lstrip(s))

\* str.split(','): the pieces between commas; always at least one piece.
RECURSIVE split(_)
split(s) ==
    IF \A i \in 1..Len(s) : s[i] # ","
    THEN <<s>>
    ELSE LET i == CHOOSE j \in 1..Len(s) :
                      s[j] = "," /\ \A h \in 1..(j - 1) : s[h] # ","
         IN <<SubSeq(s, 1, i - 1)>> \o split(SubSeq(s, i + 1, Len(s)))

\* Series.str.strip(): text is stripped, anything else becomes missing.
str_strip(c) == IF c.k = "str" THEN Str(strip(c.s)) ELSE NaN

\* ------------------------------------------------------------------ genres

GENRE_CORRECTIONS ==
    ( <<"Horor">> :> <<"Horror">> ) @@
    ( <<"Mistery">> :> <<"Mystery">> ) @@
    ( <<"Misterija">> :> <<"Mystery">> ) @@
    ( <<"Krimi">> :> <<"Crime">> ) @@
    ( <<"Komedija">> :> <<"Comedy">> ) @@
    ( <<"Akcija">> :> <<"Action">> ) @@
    ( <<"Romantic", " ", "Drama">> :> <<"Drama">> ) @@
    ( <<"Comedy-Drama">> :> <<"Drama">> ) @@
    ( <<"Crime", " ", "Drama">> :> <<"Crime">> ) @@
    ( <<"Sports", " ", "Drama">> :> <<"Drama">> ) @@
    ( <<"War", " ", "Drama">> :> <<"Drama">> ) @@
    ( <<"Historical", " ", "Drama">> :> <<"Drama">> ) @@
    ( <<"Thriller">> :> <<"Thriller">> ) @@
    ( <<"Avant-Garde">> :> <<"Documentary">> )

fix_genre(genre) ==
    LET g == strip(genre)
    IN IF g \in DOMAIN GENRE_CORRECTIONS THEN GENRE_CORRECTIONS[g] ELSE g

\* The list comprehension of clean_genres: fix_genre over the split pieces.
fixed_pieces(s) ==
    LET pieces == split(s) IN [i \in 1..Len(pieces) |-> fix_genre(pieces[i])]

\* The loop of clean_genres over `genres`, with its locals seen, unique_genres.
RECURSIVE unique_loop(_, _, _)
unique_loop(genres, seen, unique_genres) ==
    IF genres = <<>>
    THEN unique_genres
    ELSE LET g == Head(genres)
         IN IF g \notin seen
            THEN unique_loop(Tail(genres), seen \cup {g}, Append(unique_genres, g))
            ELSE unique_loop(Tail(genres), seen, unique_genres)

\* Variant of clean_genres that removes duplicates among the raw pieces and
\* corrects afterwards.
clean_genres_dedup_raw(genre_string) ==
    IF isna(genre_string)
    THEN <<>>
    ELSE LET u == unique_loop(split(genre_string.s), {}, <<>>)
         IN [i \in 1..Len(u) |-> fix_genre(u[i])]

\* Variant of clean_genres that treats a missing genre as the empty string.
clean_genres_nan_as_empty(genre_string) ==
    unique_loop(fixed_pieces(genre_string.s), {}, <<>>)

clean_genres(genre_string) ==
    IF isna(genre_string)
    THEN <<>>
    ELSE unique_loop(fixed_pieces(genre_string.s), {}, <<>>)

\* ------------------------------------------------------------------ numbers

Digits == {"0", "1", "2", "3", "4", "5", "6", "7", "8", "9"}

DigitValue(d) ==
    CASE d = "0" -> 0 [] d = "1" -> 1 [] d = "2" -> 2 [] d = "3" -> 3 [] d = "4" -> 4
      [] d = "5" -> 5 [] d = "6" -> 6 [] d = "7" -> 7 [] d = "8" -> 8 [] d = "9" -> 9

RECURSIVE DecimalValue(_)
DecimalValue(ds) ==
    IF ds = <<>>
    THEN 0
    ELSE DecimalValue(SubSeq(ds, 1, Len(ds) - 1)) * 10 + DigitValue(ds[Len(ds)])

IsDigits(t) == t # <<>> /\ \A i \in 1..Len(t) : t[i] \in Digits

\* What pd.to_numeric makes of one text: a decimal integer, an infinity, or
\* (errors='coerce') a missing value.
parse_number(t) ==
    IF IsDigits(t) THEN Num(DecimalValue(t))
    ELSE IF Len(t) > 1 /\ Head(t) = "-" /\ IsDigits(Tail(t))
         THEN Num(0 - DecimalValue(Tail(t)))
    ELSE IF t = <<"inf">> THEN Inf(1)
    ELSE IF t = <<"-", "inf">> THEN Inf(-1)
    ELSE NaN

\* pd.to_numeric(col, errors='coerce') on one cell.
to_numeric(c) == IF c.k = "str" THEN parse_number(c.s) ELSE c

\* Series.replace('unknown', np.nan) on one cell.
replace_unknown(c) == IF c = Str(<<"unknown">>) THEN NaN ELSE c

Sign(n) == IF n > 0 THEN 1 ELSE IF n < 0 THEN -1 ELSE 0

\* a - b on float64 cells.
sub(a, b) ==
    IF a.k = "nan" \/ b.k = "nan" THEN NaN
    ELSE IF a.k = "inf" /\ b.k = "inf" THEN (IF a.n = b.n THEN NaN ELSE Inf(a.n))
    ELSE IF a.k = "inf" THEN Inf(a.n)
    ELSE IF b.k = "inf" THEN Inf(0 - b.n)
    ELSE Num(a.n - b.n)

\* p / q rounded to the nearest integer, ties to the even one (q # 0).
round_half_even(p, q) ==
    LET pp == IF q < 0 THEN 0 - p ELSE p
        qq == IF q < 0 THEN 0 - q ELSE q
        f == pp \div qq
        r == pp % qq
    IN IF 2 * r < qq THEN f
       ELSE IF 2 * r > qq THEN f + 1
       ELSE IF f % 2 = 0 THEN f ELSE f + 1

\* Variant of pct_round2 in which a zero divisor yields 0 instead of inf/NaN.
pct_round2_zero_as_0(d, b) ==
    IF d.k = "nan" \/ b.k = "nan" THEN NaN
    ELSE IF b.k = "inf" THEN (IF d.k = "inf" THEN NaN ELSE Num(0))
    ELSE IF b.n = 0 THEN Num(0)
    ELSE IF d.k = "inf" THEN Inf(d.n * Sign(b.n))
    ELSE Num(round_half_even(d.n * 10000, b.n))

\* (d / b * 100).round(2) on float64 cells; the result is in hundredths.
\* Division by zero raises nothing: x/0 is +-inf and 0/0 is NaN.
pct_round2(d, b) ==
    IF d.k = "nan" \/ b.k = "nan" THEN NaN
    ELSE IF b.k = "inf" THEN (IF d.k = "inf" THEN NaN ELSE Num(0))
    ELSE IF b.n = 0
         THEN (IF d.k = "inf" THEN Inf(d.n)
               ELSE IF d.n = 0 THEN NaN ELSE Inf(Sign(d.n)))
    ELSE IF d.k = "inf" THEN Inf(d.n * Sign(b.n))
    ELSE Num(round_half_even(d.n * 10000, b.n))

\* ------------------------------------------------------------------ transform

RawColumns ==
    <<"title", "release_year", "director", "language", "country",
      "duration", "budget", "box_office", "genre">>

Range(seq) == {seq[i] : i \in 1..Len(seq)}

\* seq without the elements equal to x, order kept.
RECURSIVE Without(_, _)
Without(seq, x) ==
    IF seq = <<>> THEN <<>>
    ELSE IF Head(seq) = x THEN Without(Tail(seq), x)
    ELSE <<Head(seq)>> \o Without(Tail(seq), x)

\* pd.DataFrame(list of dicts): the columns are the keys of the dicts, and an
\* empty list gives a frame with no columns at all.
DataFrame(rows) ==
    [columns |-> IF rows = <<>> THEN <<>> ELSE <<"title", "genre">>,
     rows |-> rows]

EmptyFrame == [columns |-> <<>>, rows |-> <<>>]

\* df[name] raises KeyError when the frame has no such column.
HasColumn(df, name) == name \in Range(df.columns)

\* Lines 64-85 of transform on one row: the coerced, stripped row with roi.
clean_row(r) ==
    LET box_office == to_numeric(replace_unknown(r.box_office))
        budget == to_numeric(r.budget)
    IN [title |-> str_strip(r.title),
        release_year |-> to_numeric(r.release_year),
        director |-> str_strip(r.director),
        language |-> str_strip(r.language),
        country |-> str_strip(r.country),
        duration |-> to_numeric(r.duration),
        budget |-> budget,
        box_office |-> box_office,
        genre |-> r.genre,
        roi |-> pct_round2(sub(box_office, budget), budget)]

\* Lines 64-85 of transform: the working copy df.
clean_frame(df) ==
    [columns |-> df.columns \o <<"roi">>,
     rows |-> [i \in 1..Len(df.rows) |-> clean_row(df.rows[i])]]

\* df.drop(columns=[name]).
drop_column(df, name) ==
    [columns |-> Without(df.columns, name),
     rows |-> [i \in 1..Len(df.rows) |->
                  [c \in (DOMAIN df.rows[i]) \ {name} |-> df.rows[i][c]]]]

\* The inner loop of lines 100-104 for one row.
genre_rows_of(row) ==
    LET genres == clean_genres(row.genre)
    IN [j \in 1..Len(genres) |-> [title |-> row.title, genre |-> genres[j]]]

\* Variant of genre_rows that keeps the rows of the first record only.
genre_rows_first_only(rows) ==
    IF rows = <<>> THEN <<>> ELSE genre_rows_of(Head(rows))

\* Lines 97-104 of transform: the list `rows`, over df.iterrows() in order.
RECURSIVE genre_rows(_)
genre_rows(rows) ==
    IF rows = <<>> THEN <<>>
    ELSE genre_rows_of(Head(rows)) \o genre_rows(Tail(rows))

\* Variant of transform_movie_genres that iterates over the frame as it was
\* before the text columns were stripped.
transform_movie_genres_unstripped(df) == DataFrame(genre_rows(df.rows))

\* The tables transform has built when it reaches its summary (line 108).
transform_movies(df) == drop_column(clean_frame(df), "genre")
transform_movie_genres(df) == DataFrame(genre_rows(clean_frame(df).rows))

\* Series.str raises AttributeError on a column that is not of object dtype:
\* read_csv gives a column without a single text value a numeric dtype (an
\* empty column stays object).
str_accessor_raises(df, name) ==
    /\ df.rows # <<>>
    /\ \A i \in 1..Len(df.rows) : df.rows[i][name].k # "str"

\* Lines 77-80: the four text columns are stripped through Series.str.
strip_raises(df) ==
    \E name \in {"title", "director", "language", "country"} :
        str_accessor_raises(df, name)

\* Lines 109-113: the summary reads df_movies['box_office'], df_movies['budget']
\* and df_movie_genres['genre']; a missing column raises KeyError.
summary_raises(movies, movie_genres) ==
    \/ ~HasColumn(movies, "box_office")
    \/ ~HasColumn(movies, "budget")
    \/ ~HasColumn(movie_genres, "genre")

\* The exception transform(df) ends with, "none" when it returns.
transform_error(df) ==
    IF strip_raises(df) THEN "AttributeError"
    ELSE IF summary_raises(transform_movies(df), transform_movie_genres(df))
         THEN "KeyError"
    ELSE "none"

\* ------------------------------------------------------------------ database

\* A relation that does not exist.
Absent == [exists |-> FALSE, schema |-> "none", rows |-> <<>>]

\* CREATE TABLE IF NOT EXISTS: an existing relation is left as it is, a missing
\* one is created empty with the declared columns and constraints.
create_if_not_exists(rel) ==
    IF rel.exists THEN rel ELSE [exists |-> TRUE, schema |-> "declared", rows |-> <<>>]

\* Variant of to_sql_replace with if_exists='append': the relation is kept and
\* the rows are added to it.
to_sql_append(rel, df) ==
    IF rel.exists
    THEN [rel EXCEPT !.rows = rel.rows \o df.rows]
    ELSE [exists |-> TRUE, schema |-> "inferred", rows |-> df.rows]

\* DataFrame.to_sql(if_exists='replace', index=False): the relation is dropped
\* if it exists, created again from the frame's dtypes, and the rows inserted.
to_sql_replace(rel, df) ==
    [exists |-> TRUE, schema |-> "inferred", rows |-> df.rows]

\* What a to_sql that raises may leave behind: nothing changed (the driver
\* rolled the transaction back), the relation dropped, or the relation
\* re-created but empty.
to_sql_failed(rel) ==
    {rel, Absent, [exists |-> TRUE, schema |-> "inferred", rows |-> <<>>]}

\* ------------------------------------------------------------------ inputs

\* Title cells: a padded title, a plain one, a missing one.
TitleCells == {Str(<<" ", "Dune", " ">>), Str(<<"Up">>), NaN}

GenreSymbols == {",", " ", "Horor", "Horror", "Drama"}

\* All strings of at most n symbols over the symbols syms.
RECURSIVE StringsUpTo(_, _)
StringsUpTo(syms, n) ==
    IF n = 0 THEN {<<>>}
    ELSE LET shorter == StringsUpTo(syms, n - 1)
         IN shorter \cup {Append(s, c) : s \in shorter, c \in syms}

\* A row of the S3 object with the given title, budget, box_office and genre;
\* the other columns hold fixed sample values.
Row(title, budget, box_office, genre) ==
    [title |-> title,
     release_year |-> Str(<<"2", "0", "2", "1">>),
     director |-> Str(<<" ", "Villeneuve">>),
     language |-> Str(<<"English", " ">>),
     country |-> Str(<<"USA">>),
     duration |-> Str(<<"1", "5", "5", "min">>),
     budget |-> budget,
     box_office |-> box_office,
     genre |-> genre]

\* Genre cells of the multi-record tables: missing, empty, and
\* "Crime Drama, Krimi,Action", three pieces of which two become one label.
SampleGenres ==
    {NaN, Str(<<>>),
     Str(<<"Crime", " ", "Drama", ",", " ", "Krimi", ",", "Action">>)}

SampleRows ==
    {Row(t, Num(100), Num(250), g) : t \in TitleCells, g \in SampleGenres}

\* Cells a budget or box_office column can hold after read_csv.
AmountCells ==
    {NaN} \cup {Num(n) : n \in (0 - MaxAmount)..MaxAmount}
    \cup {Str(<<"unknown">>), Str(<<"abc">>), Str(<<"0">>), Str(<<"1", "0", "0">>),
          Str(<<"-", "5">>), Str(<<"inf">>), Str(<<"-", "inf">>)}

RECURSIVE TablesUpTo(_, _)
TablesUpTo(rows, n) ==
    IF n = 0 THEN {<<>>}
    ELSE LET shorter == TablesUpTo(rows, n - 1)
         IN shorter \cup {Append(t, r) : t \in shorter, r \in rows}

\* The contents of movies.csv considered: tables of sample rows, one-row tables
\* over every short genre string, one-row tables over every pair of amounts.
Sources ==
    {[columns |-> RawColumns, rows |-> rs] : rs \in
        TablesUpTo(SampleRows, MaxRecords)
        \cup {<<Row(Str(<<"Up">>), Num(100), Num(250), Str(g))>> :
                 g \in StringsUpTo(GenreSymbols, MaxGenreLen)}
        \cup {<<Row(Str(<<"Up">>), b, x, Str(<<"Drama">>))>> :
                 b \in AmountCells, x \in AmountCells}}

\* Rows left in the database by an earlier load of some other table.
OldMovies == transform_movies([columns |-> RawColumns,
                 rows |-> <<Row(Str(<<"Old">>), Num(1), Num(2), Str(<<"Drama">>))>>]).rows
OldMovieGenres == <<[title |-> Str(<<"Old">>), genre |-> <<"Drama">>]>>

\* The database before the first run: empty, created by an earlier
\* create_tables, or loaded by an earlier run.
InitialDbs ==
    {[movies |-> Absent, movie_genres |-> Absent],
     [movies |-> create_if_not_exists(Absent),
      movie_genres |-> create_if_not_exists(Absent)],
     [movies |-> [exists |-> TRUE, schema |-> "inferred", rows |-> OldMovies],
      movie_genres |-> [exists |-> TRUE, schema |-> "inferred", rows |-> OldMovieGenres]]}

NoCounts == [movies |-> -1, movie_genres |-> -1]

\* ------------------------------------------------------------------ pipeline

Init ==
    /\ pc = "start"
    /\ err = "none"
    /\ source \in Sources
    /\ df_raw = EmptyFrame
    /\ df_movies = EmptyFrame
    /\ df_movie_genres = EmptyFrame
    /\ db \in InitialDbs
    /\ db0 = db
    /\ log = <<>>
    /\ counts = NoCounts

\* An exception propagates out of __main__: the run ends at once.
Raise(e) ==
    /\ pc' = "failed"
    /\ err' = e

\* extract_from_s3 returns the parsed object.
Extract ==
    /\ pc = "start"
    /\ df_raw' = source
    /\ pc' = "extracted"
    /\ log' = Append(log, "extract")
    /\ UNCHANGED <<err, source, df_movies, df_movie_genres, db, db0, counts>>

\* extract_from_s3 raises (client, get_object, decode or read_csv).
ExtractFail ==
    /\ pc = "start"
    /\ Raise("FetchError")
    /\ UNCHANGED <<source, df_raw, df_movies, df_movie_genres, db, db0, log, counts>>

\* transform(df_raw) returns its two tables.
Transform ==
    /\ pc = "extracted"
    /\ transform_error(df_raw) = "none"
    /\ df_movies' = transform_movies(df_raw)
    /\ df_movie_genres' = transform_movie_genres(df_raw)
    /\ pc' = "transformed"
    /\ log' = Append(log, "transform")
    /\ UNCHANGED <<err, source, df_raw, db, db0, counts>>

\* transform(df_raw) raises (AttributeError while stripping, KeyError in its
\* summary); nothing is returned.
TransformFail ==
    /\ pc = "extracted"
    /\ transform_error(df_raw) # "none"
    /\ Raise(transform_error(df_raw))
    /\ UNCHANGED <<source, df_raw, df_movies, df_movie_genres, db, db0, log, counts>>

\* load_to_postgres, step 1: create_tables(engine) commits.
CreateTables ==
    /\ pc = "transformed"
    /\ db' = [movies |-> create_if_not_exists(db.movies),
              movie_genres |-> create_if_not_exists(db.movie_genres)]
    /\ pc' = "schema"
    /\ log' = Append(log, "create_tables")
    /\ UNCHANGED <<err, source, df_raw, df_movies, df_movie_genres, db0, counts>>

\* Variant of CreateTablesFail in which the exception is caught and the load
\* carries on with its writes.
CreateTablesFailSwallowed ==
    /\ pc = "transformed"
    /\ err' = "SchemaError"
    /\ pc' = "schema"
    /\ UNCHANGED <<source, df_raw, df_movies, df_movie_genres, db, db0, log, counts>>

\* create_tables raises (connection, permissions) before its commit.
CreateTablesFail ==
    /\ pc = "transformed"
    /\ Raise("SchemaError")
    /\ UNCHANGED <<source, df_raw, df_movies, df_movie_genres, db, db0, log, counts>>

\* load_to_postgres, step 2: df_movies.to_sql('movies', if_exists='replace').
WriteMovies ==
    /\ pc = "schema"
    /\ db' = [db EXCEPT !.movies = to_sql_replace(db.movies, df_movies)]
    /\ pc' = "movies_written"
    /\ log' = Append(log, "write_movies")
    /\ UNCHANGED <<err, source, df_raw, df_movies, df_movie_genres, db0, counts>>

WriteMoviesFail ==
    /\ pc = "schema"
    /\ \E rel \in to_sql_failed(db.movies) : db' = [db EXCEPT !.movies = rel]
    /\ Raise("WriteError")
    /\ UNCHANGED <<source, df_raw, df_movies, df_movie_genres, db0, log, counts>>

\* load_to_postgres, step 3: df_movie_genres.to_sql('movie_genres', ...).
WriteMovieGenres ==
    /\ pc = "movies_written"
    /\ db' = [db EXCEPT !.movie_genres = to_sql_replace(db.movie_genres, df_movie_genres)]
    /\ pc' = "genres_written"
    /\ log' = Append(log, "write_movie_genres")
    /\ UNCHANGED <<err, source, df_raw, df_movies, df_movie_genres, db0, counts>>

WriteMovieGenresFail ==
    /\ pc = "movies_written"
    /\ \E rel \in to_sql_failed(db.movie_genres) : db' = [db EXCEPT !.movie_genres = rel]
    /\ Raise("WriteError")
    /\ UNCHANGED <<source, df_raw, df_movies, df_movie_genres, db0, log, counts>>

\* load_to_postgres, step 4: the two COUNT(*) queries; the counts are printed
\* and compared with nothing.  __main__ then prints "ETL Complete".
Verify ==
    /\ pc = "genres_written"
    /\ counts' = [movies |-> Len(db.movies.rows),
                  movie_genres |-> Len(db.movie_genres.rows)]
    /\ pc' = "done"
    /\ log' = Append(log, "verify")
    /\ UNCHANGED <<err, source, df_raw, df_movies, df_movie_genres, db, db0>>

VerifyFail ==
    /\ pc = "genres_written"
    /\ Raise("VerifyError")
    /\ UNCHANGED <<source, df_raw, df_movies, df_movie_genres, db, db0, log, counts>>

\* The script is invoked again: a fresh process against the same database.
Rerun ==
    /\ pc \in {"done", "failed"}
    /\ pc' = "start"
    /\ err' = "none"
    /\ df_raw' = EmptyFrame
    /\ df_movies' = EmptyFrame
    /\ df_movie_genres' = EmptyFrame
    /\ db0' = db
    /\ log' = <<>>
    /\ counts' = NoCounts
    /\ UNCHANGED <<source, db>>

Next ==
    \/ Extract
    \/ ExtractFail
    \/ Transform
    \/ TransformFail
    \/ CreateTables
    \/ CreateTablesFail
    \/ WriteMovies
    \/ WriteMoviesFail
    \/ WriteMovieGenres
    \/ WriteMovieGenresFail
    \/ Verify
    \/ VerifyFail
    \/ Rerun

Spec == Init /\ [][Next]_vars

\* ------------------------------------------------------------------ properties

\* A finite number: neither missing (null/NaN) nor infinite.
Finite(c) == c.k = "num"

NoDuplicates(seq) ==
    \A i, j \in 1..Len(seq) : i # j => seq[i] # seq[j]

\* The indices of seq that hold the first occurrence of their value.
FirstIndices(seq) ==
    {i \in 1..Len(seq) : \A h \in 1..(i - 1) : seq[h] # seq[i]}

\* seq[i] for the indices i of idx, in increasing order.
RECURSIVE Pick(_, _)
Pick(seq, idx) ==
    IF idx = {} THEN <<>>
    ELSE LET m == CHOOSE i \in idx : \A j \in idx : i <= j
         IN <<seq[m]>> \o Pick(seq, idx \ {m})

\* seq with every later duplicate removed.
KeepFirst(seq) == Pick(seq, FirstIndices(seq))

RemoveAt(seq, i) == SubSeq(seq, 1, i - 1) \o SubSeq(seq, i + 1, Len(seq))

\* Number of labels clean_genres gives for the first n records of the input.
RECURSIVE LabelsBefore(_)
LabelsBefore(n) ==
    IF n = 0 THEN 0
    ELSE LabelsBefore(n - 1) + Len(clean_genres(df_raw.rows[n].genre))

Trimmed(s) ==
    s = <<>> \/ (Head(s) \notin Whitespace /\ s[Len(s)] \notin Whitespace)

StageOrder ==
    <<"extract", "transform", "create_tables", "write_movies",
      "write_movie_genres", "verify">>

\* transform(df_raw) has been called and is no longer running.
TransformCalled == log # <<>> /\ pc # "extracted"

\* transform(df_raw) has returned its two tables.
TransformReturned == Len(log) >= 2

\* C1: in every row transform returns, roi is a finite value exactly when
\* budget and box_office are both finite after coercion and budget is not 0;
\* a zero budget gives a non-finite roi (NaN or +-inf) and raises nothing.
C1_RoiPresentIff ==
    TransformReturned =>
        \A i \in 1..Len(df_movies.rows) :
            LET m == df_movies.rows[i]
            IN Finite(m.roi) <=>
                   (Finite(m.budget) /\ Finite(m.box_office) /\ m.budget.n # 0)

\* C1 witness: transform returned a row with budget 0 and a positive
\* box_office; its roi is +inf, which is not a finite value.
C1_Witness ==
    /\ TransformReturned
    /\ \E i \in 1..Len(df_movies.rows) :
           /\ df_movies.rows[i].budget = Num(0)
           /\ Finite(df_movies.rows[i].box_office)
           /\ df_movies.rows[i].box_office.n > 0
           /\ df_movies.rows[i].roi = Inf(1)

\* C2: for a record with a non-missing genre string, the labels transform
\* emits for it (clean_genres) hold no label twice and are the sequence of
\* corrected pieces with every later duplicate removed.
C2_CleanGenresKeepFirst ==
    (TransformReturned /\ Len(df_raw.rows) = 1 /\ ~isna(df_raw.rows[1].genre)) =>
        LET out == [j \in 1..Len(df_movie_genres.rows) |-> df_movie_genres.rows[j].genre]
            pieces == split(df_raw.rows[1].genre.s)
            corrected == [i \in 1..Len(pieces) |-> fix_genre(pieces[i])]
        IN /\ NoDuplicates(out)
           /\ out = KeepFirst(corrected)

\* C2 witness: "Horor,Horror" has two pieces that become the same label, and
\* one label comes out.
C2_Witness ==
    /\ TransformReturned
    /\ Len(df_raw.rows) = 1
    /\ df_raw.rows[1].genre = Str(<<"Horor", ",", "Horror">>)
    /\ Len(df_movie_genres.rows) = 1
    /\ df_movie_genres.rows[1].genre = <<"Horror">>

\* C3 (as claimed): once transform has been called on a table whose text
\* columns can be stripped, it has returned, and the movies table has one row
\* per input record, in input order, whatever the genres are.
C3_OneMovieRowPerRecord ==
    (TransformCalled /\ err # "AttributeError") =>
        /\ TransformReturned
        /\ Len(df_movies.rows) = Len(df_raw.rows)
        /\ \A i \in 1..Len(df_raw.rows) :
               df_movies.rows[i].title = str_strip(df_raw.rows[i].title)

\* C4: the movie-genre table transform returns is the concatenation, over
\* the input records in order, of one row (title, g) per label g of
\* clean_genres(record.genre), in clean_genres order.
C4_GenreRowsConcatenation ==
    TransformReturned =>
        /\ Len(df_movie_genres.rows) = LabelsBefore(Len(df_raw.rows))
        /\ \A i \in 1..Len(df_raw.rows) :
               LET genres == clean_genres(df_raw.rows[i].genre)
               IN \A j \in 1..Len(genres) :
                      df_movie_genres.rows[LabelsBefore(i - 1) + j] =
                          [title |-> df_movies.rows[i].title, genre |-> genres[j]]

\* C4 witness: two records with two labels each; the second record's two
\* rows follow the first record's two rows.
C4_Witness ==
    /\ TransformReturned
    /\ Len(df_raw.rows) = 2
    /\ Len(clean_genres(df_raw.rows[1].genre)) = 2
    /\ Len(clean_genres(df_raw.rows[2].genre)) = 2
    /\ df_raw.rows[1].title # df_raw.rows[2].title
    /\ Len(df_movie_genres.rows) = 4
    /\ df_movie_genres.rows[1].title = df_movie_genres.rows[2].title
    /\ df_movie_genres.rows[3].title = df_movie_genres.rows[4].title
    /\ df_movie_genres.rows[2].title # df_movie_genres.rows[3].title

\* The movie-genre rows the input without its i-th record gives.
RowsWithout(i) == genre_rows(clean_frame([df_raw EXCEPT !.rows = RemoveAt(df_raw.rows, i)]).rows)

\* C5 (as claimed): a record whose genre is missing or the empty string
\* contributes no row: the returned movie-genre table is the one the input
\* without that record gives.
C5_MissingOrEmptyGenreNoRows ==
    TransformReturned =>
        \A i \in 1..Len(df_raw.rows) :
            (isna(df_raw.rows[i].genre) \/ df_raw.rows[i].genre = Str(<<>>)) =>
                df_movie_genres.rows = RowsWithout(i)

\* C5 (amended): a record whose genre is missing contributes no row to the
\* returned movie-genre table; a record whose genre is the empty string
\* contributes exactly one row, (title, ""), at its place in input order.
C5_MissingNoRowsEmptyOneRow ==
    TransformReturned =>
        \A i \in 1..Len(df_raw.rows) :
            /\ isna(df_raw.rows[i].genre) => df_movie_genres.rows = RowsWithout(i)
            /\ df_raw.rows[i].genre = Str(<<>>) =>
                   /\ Len(df_movie_genres.rows) = Len(RowsWithout(i)) + 1
                   /\ RemoveAt(df_movie_genres.rows, LabelsBefore(i - 1) + 1) = RowsWithout(i)
                   /\ df_movie_genres.rows[LabelsBefore(i - 1) + 1] =
                          [title |-> str_strip(df_raw.rows[i].title), genre |-> <<>>]

\* C5 witness: transform returned for a table with a missing genre followed
\* by an empty-string genre; the one row comes from the second record.
C5_Witness ==
    /\ TransformReturned
    /\ Len(df_raw.rows) = 2
    /\ isna(df_raw.rows[1].genre)
    /\ df_raw.rows[2].genre = Str(<<>>)
    /\ Len(df_movie_genres.rows) = 1

\* C6 (as claimed): the summary changes nothing: once transform has been
\* called and has built its two tables, it has returned exactly those.
C6_SummaryObservational ==
    (TransformCalled /\ err # "AttributeError") =>
        /\ TransformReturned
        /\ df_movies = transform_movies(df_raw)
        /\ df_movie_genres = transform_movie_genres(df_raw)

\* C7: the completed stages of a run are always an initial part of extract,
\* transform, create_tables, write_movies, write_movie_genres, verify; after
\* a failed fetch no stage has run and the database is as it was; after a
\* failed create_tables no write has run and the database is as it was; a
\* relation differs from its state at the start only once its own stage has
\* been reached.
C7_StagesInOrderFailureStops ==
    /\ Len(log) <= Len(StageOrder)
    /\ log = SubSeq(StageOrder, 1, Len(log))
    /\ err = "FetchError" =>
           log = <<>> /\ db = db0 /\ df_movies = EmptyFrame /\ df_movie_genres = EmptyFrame
    /\ err \in {"AttributeError", "KeyError"} => log = <<"extract">> /\ db = db0
    /\ err = "SchemaError" => log = <<"extract", "transform">> /\ db = db0
    /\ Len(log) < 3 => db = db0
    /\ Len(log) < 4 => db.movie_genres = create_if_not_exists(db0.movie_genres)
                       \/ db.movie_genres = db0.movie_genres

\* C7 witness: create_tables failed in a run whose database already held
\* rows; both relations still hold them.
C7_Witness ==
    /\ err = "SchemaError"
    /\ pc = "failed"
    /\ db.movies.rows # <<>>
    /\ db.movie_genres.rows # <<>>

\* C8: when load_to_postgres has completed, each relation holds exactly the
\* rows of the table passed in for it, whatever it held before.
C8_FullRefresh ==
    pc = "done" =>
        /\ db.movies.rows = df_movies.rows
        /\ db.movie_genres.rows = df_movie_genres.rows

\* C8 witness: a load completed over relations that held other rows before.
C8_Witness ==
    /\ pc = "done"
    /\ db0.movies.rows # <<>>
    /\ db0.movies.rows # df_movies.rows
    /\ db0.movie_genres.rows # <<>>
    /\ db0.movie_genres.rows # df_movie_genres.rows

\* C9 (as claimed): when load_to_postgres has completed, both relations have
\* the schema create_tables declares.
C9_DeclaredSchemaKept ==
    pc = "done" =>
        /\ db.movies.schema = "declared"
        /\ db.movie_genres.schema = "declared"

\* C10: every row of the returned movie-genre table carries the trimmed
\* title of a record whose labels include its genre, which is the title of
\* that record's movies row; the movies table keeps one row per input record,
\* duplicates of a title included.
C10_JoinKeyConsistent ==
    TransformReturned =>
        /\ Len(df_movies.rows) = Len(df_raw.rows)
        /\ \A i \in 1..Len(df_raw.rows) :
               /\ df_movies.rows[i].title.k = "str" => Trimmed(df_movies.rows[i].title.s)
               /\ df_movies.rows[i].title = str_strip(df_raw.rows[i].title)
        /\ \A k \in 1..Len(df_movie_genres.rows) :
               \E i \in 1..Len(df_raw.rows) :
                   /\ LabelsBefore(i - 1) < k
                   /\ k <= LabelsBefore(i)
                   /\ df_movie_genres.rows[k].title = df_movies.rows[i].title
        /\ {df_movie_genres.rows[k].title : k \in 1..Len(df_movie_genres.rows)}
               \subseteq {df_movies.rows[i].title : i \in 1..Len(df_movies.rows)}

\* C10 witness: two records with the same padded title and two labels each:
\* two movies rows and four movie-genre rows, all with the trimmed title.
C10_Witness ==
    /\ TransformReturned
    /\ Len(df_raw.rows) = 2
    /\ df_raw.rows[1].title = Str(<<" ", "Dune", " ">>)
    /\ df_raw.rows[2].title = df_raw.rows[1].title
    /\ Len(df_movies.rows) = 2
    /\ Len(df_movie_genres.rows) = 4
    /\ \A k \in 1..4 : df_movie_genres.rows[k].title = Str(<<"Dune">>)

=============================================================================
